---- MODULE Spec2Model ----
(***************************************************************************)
(* Model of term_emu (src/term_emu/src/main.rs): the terminal front end of *)
(* a Game Boy Color emulator.  Two threads: the main thread runs cli (the  *)
(* terminal setup, the 'running loop: drain of the key-code channel, diff  *)
(* of the pressed keys, handle_frame, pacing) and the collector thread of  *)
(* spawn_stdin_channel reads stdin and sends every char on the channel.    *)
(***************************************************************************)
EXTENDS Naturals, Sequences, FiniteSets

(* ---------------------------- bounds ----------------------------------- *)
\* The channel is unbounded in the code; the model holds at most MaxQueue
\* key codes in flight.
MaxQueue == 2
\* pressed_keys is an unbounded Vec; the model records at most MaxKeys
\* entries per drain.  Once it is full the collector may only send key codes
\* that are already recorded or in flight, and the push of such a duplicate
\* leaves the Vec unchanged (see VecPush and CanSend, and NoKeyLost).
MaxKeys == 2
\* elapsed wall-clock time of a cycle, in units of FRAME_DURATION / 2
MaxElapsed == 5

(* --------------------------- constants --------------------------------- *)
FRAMES_PER_CYCLE == 2
\* Gameboy::FRAME_DURATION (a constant of the gbc crate, read at main.rs:157),
\* in the model's time unit
FRAME_DURATION == 2

None == "None"
QuitKey == "q"
\* '\0': what read_char returns when stdin is at end of file
NulKey == "NUL"
\* the bytes stdin delivers in the model: two mapped keys and quit; the
\* unmapped key code of the model is '\0'
InputBytes == {"w", "a", "q"}
Eof == "EOF"

(* ----------------------- pure functions -------------------------------- *)
\* mutant of char_to_joypad_input: the default arm yields a button
char_to_joypad_input_DefaultArmMapped(keycode) ==
    CASE keycode = "n" -> "B"
      [] keycode = "m" -> "A"
      [] keycode = "j" -> "Start"
      [] keycode = "k" -> "Select"
      [] keycode = "w" -> "Up"
      [] keycode = "s" -> "Down"
      [] keycode = "a" -> "Left"
      [] keycode = "d" -> "Right"
      [] OTHER -> "A"

char_to_joypad_input(keycode) ==
    CASE keycode = "n" -> "B"
      [] keycode = "m" -> "A"
      [] keycode = "j" -> "Start"
      [] keycode = "k" -> "Select"
      [] keycode = "w" -> "Up"
      [] keycode = "s" -> "Down"
      [] keycode = "a" -> "Left"
      [] keycode = "d" -> "Right"
      [] OTHER -> None

\* read_char on a successful read: buf starts as [0], read stores the byte
\* read, or nothing at end of file
read_char(input) == IF input = Eof THEN NulKey ELSE input

JoypadEvent(kind, input) == [kind |-> kind, input |-> input]

\* Vec::contains
Contains(v, k) == \E i \in 1..Len(v) : v[i] = k

\* pressed_keys.push(keycode)
VecPush(v, k) == IF Len(v) < MaxKeys THEN Append(v, k) ELSE v

\* mutant of PushUpEvents: the test against pressed_keys is lost
RECURSIVE PushUpEvents_NoCurrentTest(_, _, _)
PushUpEvents_NoCurrentTest(keys, current, events) ==
    IF keys = <<>> THEN events
    ELSE LET input == char_to_joypad_input(Head(keys))
             pushed == IF input # None
                       THEN Append(events, JoypadEvent("Up", input))
                       ELSE events
         IN PushUpEvents_NoCurrentTest(Tail(keys), current, pushed)

\* for keycode in previous_pressed_keys.iter() { ... push(Up) }
RECURSIVE PushUpEvents(_, _, _)
PushUpEvents(keys, current, events) ==
    IF keys = <<>> THEN events
    ELSE LET keycode == Head(keys)
             input == char_to_joypad_input(keycode)
             pushed == IF ~Contains(current, keycode) /\ input # None
                       THEN Append(events, JoypadEvent("Up", input))
                       ELSE events
         IN PushUpEvents(Tail(keys), current, pushed)

\* mutant of PushDownEvents: the test against previous_pressed_keys is lost
RECURSIVE PushDownEvents_NoPreviousTest(_, _, _)
PushDownEvents_NoPreviousTest(keys, previous, events) ==
    IF keys = <<>> THEN events
    ELSE LET input == char_to_joypad_input(Head(keys))
             pushed == IF input # None
                       THEN Append(events, JoypadEvent("Down", input))
                       ELSE events
         IN PushDownEvents_NoPreviousTest(Tail(keys), previous, pushed)

\* for keycode in pressed_keys.iter() { ... push(Down) }
RECURSIVE PushDownEvents(_, _, _)
PushDownEvents(keys, previous, events) ==
    IF keys = <<>> THEN events
    ELSE LET keycode == Head(keys)
             input == char_to_joypad_input(keycode)
             pushed == IF ~Contains(previous, keycode) /\ input # None
                       THEN Append(events, JoypadEvent("Down", input))
                       ELSE events
         IN PushDownEvents(Tail(keys), previous, pushed)

\* the argument of the i-th gameboy.frame call of handle_frame (i from 0)
FrameArg(i, events) == events

\* mutant of FrameCalls: the call after the for loop is lost
FrameCalls_LoopOnly == FRAMES_PER_CYCLE - 1

\* gameboy.frame calls of one handle_frame: the for loop over
\* 0..FRAMES_PER_CYCLE-1, then the call whose buffer is rendered
FrameCalls == (FRAMES_PER_CYCLE - 1) + 1

\* mutant of ClearEvents: the processed events stay in the list
ClearEvents_Kept(events) == events

\* joypad_events.clear()
ClearEvents(events) == <<>>

\* mutant of ClearPressed: the drained key codes stay in the list
ClearPressed_Kept(keys) == keys

\* pressed_keys.clear()
ClearPressed(keys) == <<>>

\* mutant of try_recv: a blocking recv, which has no answer while the
\* channel is empty and the sender lives
try_recv_Blocking(q, sender) ==
    IF q # <<>> THEN [tag |-> "Ok", val |-> Head(q)]
    ELSE IF sender = "dead" THEN [tag |-> "Disconnected", val |-> None]
    ELSE [tag |-> "Blocked", val |-> None]

\* mutant of try_recv: the end of the sender is never reported
try_recv_NoDisconnect(q, sender) ==
    IF q # <<>> THEN [tag |-> "Ok", val |-> Head(q)]
    ELSE [tag |-> "Empty", val |-> None]

\* rx.try_recv()
try_recv(q, sender) ==
    IF q # <<>> THEN [tag |-> "Ok", val |-> Head(q)]
    ELSE IF sender = "dead" THEN [tag |-> "Disconnected", val |-> None]
    ELSE [tag |-> "Empty", val |-> None]

\* Duration::from_nanos(Gameboy::FRAME_DURATION * FRAMES_PER_CYCLE)
frame_duration == FRAME_DURATION * FRAMES_PER_CYCLE

\* mutant of SleepFor: after an overrun the excess is slept
SleepFor_SleepsAfterOverrun(e) ==
    IF e < frame_duration THEN frame_duration - e ELSE e - frame_duration

\* the argument of sleeper.sleep, 0 when sleep is not called
SleepFor(elapsed) ==
    IF elapsed < frame_duration THEN frame_duration - elapsed ELSE 0

(* ---------------------------- compositor ------------------------------ *)
\* gbc::ppu::LCD_WIDTH and LCD_HEIGHT (160 and 144 in the gbc crate), scaled
\* down: two columns, two cell rows
LCD_WIDTH == 2
LCD_HEIGHT == 4

\* the colour values frame_buffer.read returns in the model
Pixels == {[red |-> 0, green |-> 0, blue |-> 0],
           [red |-> 255, green |-> 0, blue |-> 0]}

FrameBuffers == [(0..(LCD_WIDTH - 1)) \X (0..(LCD_HEIGHT - 1)) -> Pixels]

\* frame_buffer.read(x, y)
read(fb, px, py) == fb[<<px, py>>]

\* Color::Rgb{r: vals.red, g: vals.green, b: vals.blue}
Rgb(vals) == [r |-> vals.red, g |-> vals.green, b |-> vals.blue]

\* Color::Rgb{r:0, g:0, b:0}
Black == [r |-> 0, g |-> 0, b |-> 0]

BlackBuffer ==
    [c \in (0..(LCD_WIDTH - 1)) \X (0..(LCD_HEIGHT - 1)) |->
        [red |-> 0, green |-> 0, blue |-> 0]]

\* the instructions queue! encodes into the byte stream
SetBackgroundColor(color) == [op |-> "SetBackgroundColor", arg |-> color]
SetForegroundColor(color) == [op |-> "SetForegroundColor", arg |-> color]
HalfBlock == [op |-> "HalfBlock", arg |-> 0]
MoveToNextLine(n) == [op |-> "MoveToNextLine", arg |-> n]
ResetColor == [op |-> "ResetColor", arg |-> 0]
MoveTo(col, row) == [op |-> "MoveTo", arg |-> <<col, row>>]

\* mutant of ComposeCell: prev_bg_color and prev_fg_color are not updated
ComposeCell_PrevNotUpdated(st, bg_color, fg_color) ==
    LET s1 == IF bg_color # st.bg
              THEN [st EXCEPT !.out = Append(@, SetBackgroundColor(bg_color))]
              ELSE st
        s2 == IF fg_color # s1.fg
              THEN [s1 EXCEPT !.out = Append(@, SetForegroundColor(fg_color))]
              ELSE s1
    IN [s2 EXCEPT !.out = Append(@, HalfBlock)]

\* mutant of ComposeCell: an unchanged foreground colour is set again
ComposeCell_ForegroundAlwaysSet(st, bg_color, fg_color) ==
    LET s1 == IF bg_color # st.bg
              THEN [st EXCEPT !.out = Append(@, SetBackgroundColor(bg_color)),
                              !.bg = bg_color]
              ELSE st
        s2 == [s1 EXCEPT !.out = Append(@, SetForegroundColor(fg_color)),
                         !.fg = fg_color]
    IN [s2 EXCEPT !.out = Append(@, HalfBlock)]

\* the body of create_frame's inner loop; st holds prev_bg_color,
\* prev_fg_color and the frame Vec
ComposeCell(st, bg_color, fg_color) ==
    LET s1 == IF bg_color # st.bg
              THEN [st EXCEPT !.out = Append(@, SetBackgroundColor(bg_color)),
                              !.bg = bg_color]
              ELSE st
        s2 == IF fg_color # s1.fg
              THEN [s1 EXCEPT !.out = Append(@, SetForegroundColor(fg_color)),
                              !.fg = fg_color]
              ELSE s1
    IN [s2 EXCEPT !.out = Append(@, HalfBlock)]

\* mutant of EndOfRow: the tracked colours start again at black on each row
EndOfRow_ColorsReset(st) ==
    [out |-> Append(st.out, MoveToNextLine(1)), bg |-> Black, fg |-> Black]

\* the end of create_frame's outer loop body
EndOfRow(st) == [st EXCEPT !.out = Append(@, MoveToNextLine(1))]

(* ------------------------------ state ---------------------------------- *)
VARIABLES
    pc,                    \* position of the main thread in main/cli
    result,                \* how cli ended: "none", "Ok", "Err", "panic"
    exitCause,             \* why the 'running loop ended
    altScreen,             \* terminal: alternate screen entered
    rawMode,               \* terminal: raw mode enabled
    cursorHidden,          \* terminal: cursor hidden
    teardowns,             \* number of times the quit arm's teardown ran
    collector,             \* collector thread: "unspawned", "running", "dead"
    queue,                 \* the mpsc channel's buffer
    pressed_keys,
    previous_pressed_keys,
    joypad_events,
    frame_i,               \* gameboy.frame calls made in this cycle
    delivered,             \* the event lists those calls received, in order
    written,               \* frames written to stdout in this cycle
    elapsed,               \* frame_start.elapsed() of this cycle
    slept,                 \* duration passed to sleeper.sleep in this cycle
    rpc,                   \* position in render_frame / create_frame
    frame_buffer,          \* the FrameBuffer being rendered
    last_frame_buffer,     \* the FrameBuffer of the last frame written
    composed_before,       \* a frame has been written
    frame,                 \* the Vec<u8> create_frame queues into
    stdout,                \* what stdout received for this frame
    prev_bg_color,
    prev_fg_color,
    x,                     \* create_frame's loop variables
    y

loopVars == <<pc, result, exitCause, altScreen, rawMode, cursorHidden,
              teardowns, collector, queue, pressed_keys, previous_pressed_keys,
              joypad_events, frame_i, delivered, written, elapsed, slept>>

renderVars == <<rpc, frame_buffer, last_frame_buffer, composed_before, frame,
                stdout, prev_bg_color, prev_fg_color, x, y>>

vars == <<loopVars, renderVars>>

termVars == <<altScreen, rawMode, cursorHidden, teardowns>>
keyVars == <<pressed_keys, previous_pressed_keys, joypad_events>>
cycleVars == <<frame_i, delivered, written, elapsed, slept>>

InitLoop ==
    /\ pc = "setup"
    /\ result = "none"
    /\ exitCause = "none"
    /\ altScreen = FALSE
    /\ rawMode = FALSE
    /\ cursorHidden = FALSE
    /\ teardowns = 0
    /\ collector = "unspawned"
    /\ queue = <<>>
    /\ pressed_keys = <<>>
    /\ previous_pressed_keys = <<>>
    /\ joypad_events = <<>>
    /\ frame_i = 0
    /\ delivered = <<>>
    /\ written = 0
    /\ elapsed = 0
    /\ slept = 0

\* the compositor at rest, before any render_frame call
InitRender ==
    /\ rpc = "idle"
    /\ frame_buffer = BlackBuffer
    /\ last_frame_buffer = BlackBuffer
    /\ composed_before = FALSE
    /\ frame = <<>>
    /\ stdout = <<>>
    /\ prev_bg_color = Black
    /\ prev_fg_color = Black
    /\ x = 0
    /\ y = 0

Init == InitLoop /\ InitRender

Terminated == pc \in {"returned", "panicked"}

(* ------------------------ main thread: cli ----------------------------- *)
\* execute!(EnterAlternateScreen)?; enable_raw_mode()?; execute!(Hide)?
Setup ==
    /\ pc = "setup"
    /\ \E outcome \in {"ok", "enter_fails", "raw_fails", "hide_fails"} :
         /\ altScreen' = (outcome # "enter_fails")
         /\ rawMode' = (outcome \in {"ok", "hide_fails"})
         /\ cursorHidden' = (outcome = "ok")
         /\ IF outcome = "ok"
            THEN pc' = "load" /\ UNCHANGED <<result, exitCause>>
            ELSE pc' = "returned" /\ result' = "Err" /\ exitCause' = "io"
    /\ UNCHANGED <<teardowns, collector, queue, keyVars, cycleVars>>
    /\ UNCHANGED renderVars

\* get_cartridge: std::fs::read(path).expect(..)
LoadRom ==
    /\ pc = "load"
    /\ \E readable \in BOOLEAN :
         IF readable
         THEN pc' = "init_core" /\ UNCHANGED <<result, exitCause>>
         ELSE pc' = "panicked" /\ result' = "panic" /\ exitCause' = "rom"
    /\ UNCHANGED <<termVars, collector, queue, keyVars, cycleVars>>
    /\ UNCHANGED renderVars

\* Gameboy::init(cartridge, false).unwrap()
InitCore ==
    /\ pc = "init_core"
    /\ \E ok \in BOOLEAN :
         IF ok
         THEN pc' = "spawn" /\ UNCHANGED <<result, exitCause>>
         ELSE pc' = "panicked" /\ result' = "panic" /\ exitCause' = "core_init"
    /\ UNCHANGED <<termVars, collector, queue, keyVars, cycleVars>>
    /\ UNCHANGED renderVars

\* spawn_stdin_channel()
Spawn ==
    /\ pc = "spawn"
    /\ collector' = "running"
    /\ pc' = "cycle"
    /\ UNCHANGED <<result, exitCause, termVars, queue, keyVars, cycleVars>>
    /\ UNCHANGED renderVars

\* top of 'running: frame_start = Instant::now(); nothing of the previous
\* cycle's frame work is left
CycleStart ==
    /\ pc = "cycle"
    /\ pc' = "drain"
    /\ frame_i' = 0 /\ delivered' = <<>> /\ written' = 0
    /\ elapsed' = 0 /\ slept' = 0
    /\ UNCHANGED <<result, exitCause, termVars, collector, queue, keyVars>>
    /\ UNCHANGED renderVars

\* mutant of QuitBreak: a plain break, which leaves the drain only
QuitBreak_InnerLoop == "diff"

\* where break 'running of the quit arm continues: after the loop, at Ok(())
QuitBreak == "returned"

\* Ok('q') => { execute!(LeaveAlternateScreen)?; execute!(Show)?; break 'running }
QuitArm(outcome) ==
    /\ altScreen' = IF outcome = "leave_fails" THEN altScreen ELSE FALSE
    /\ cursorHidden' = IF outcome = "ok" THEN FALSE ELSE cursorHidden
    /\ rawMode' = rawMode
    /\ teardowns' = IF outcome = "ok" THEN teardowns + 1 ELSE teardowns
    /\ result' = IF outcome = "ok" THEN "Ok" ELSE "Err"

DrainQuit ==
    /\ pc = "drain"
    /\ try_recv(queue, collector).tag = "Ok"
    /\ try_recv(queue, collector).val = QuitKey
    /\ queue' = Tail(queue)
    /\ \E outcome \in {"ok", "leave_fails", "show_fails"} :
         /\ QuitArm(outcome)
         /\ pc' = IF outcome = "ok" THEN QuitBreak ELSE "returned"
    /\ exitCause' = "quit"
    /\ UNCHANGED <<collector, keyVars, cycleVars>>
    /\ UNCHANGED renderVars

\* Ok(keycode) => pressed_keys.push(keycode)
DrainKey ==
    /\ pc = "drain"
    /\ try_recv(queue, collector).tag = "Ok"
    /\ try_recv(queue, collector).val # QuitKey
    /\ queue' = Tail(queue)
    /\ pressed_keys' = VecPush(pressed_keys, try_recv(queue, collector).val)
    /\ UNCHANGED <<pc, result, exitCause, termVars, collector,
                   previous_pressed_keys, joypad_events, cycleVars>>
    /\ UNCHANGED renderVars

\* Err(TryRecvError::Empty) => break
DrainEmpty ==
    /\ pc = "drain"
    /\ try_recv(queue, collector).tag = "Empty"
    /\ pc' = "diff"
    /\ UNCHANGED <<result, exitCause, termVars, collector, queue, keyVars,
                   cycleVars>>
    /\ UNCHANGED renderVars

\* Err(TryRecvError::Disconnected) => break 'running, then Ok(())
DrainDisconnected ==
    /\ pc = "drain"
    /\ try_recv(queue, collector).tag = "Disconnected"
    /\ pc' = "returned"
    /\ result' = "Ok"
    /\ exitCause' = "disconnected"
    /\ UNCHANGED <<termVars, collector, queue, keyVars, cycleVars>>
    /\ UNCHANGED renderVars

\* the two for loops, then previous_pressed_keys = pressed_keys.clone();
\* pressed_keys.clear()
Diff ==
    /\ pc = "diff"
    /\ joypad_events' =
         PushDownEvents(pressed_keys, previous_pressed_keys,
            PushUpEvents(previous_pressed_keys, pressed_keys, joypad_events))
    /\ previous_pressed_keys' = pressed_keys
    /\ pressed_keys' = ClearPressed(pressed_keys)
    /\ pc' = "frames"
    /\ UNCHANGED <<result, exitCause, termVars, collector, queue, cycleVars>>
    /\ UNCHANGED renderVars

\* handle_frame: one gameboy.frame(Some(joypad_events)) call
FrameAdvance ==
    /\ pc = "frames"
    /\ frame_i < FrameCalls
    /\ delivered' = Append(delivered, FrameArg(frame_i, joypad_events))
    /\ frame_i' = frame_i + 1
    /\ UNCHANGED <<pc, result, exitCause, termVars, collector, queue, keyVars,
                   written, elapsed, slept>>
    /\ UNCHANGED renderVars

\* handle_frame: joypad_events.clear(); render_frame(..), whose writes to
\* stdout are unwrapped
Render ==
    /\ pc = "frames"
    /\ frame_i = FrameCalls
    /\ joypad_events' = ClearEvents(joypad_events)
    /\ \E ok \in BOOLEAN :
         IF ok
         THEN /\ written' = written + 1
              /\ pc' = "pace"
              /\ UNCHANGED <<result, exitCause>>
         ELSE /\ written' = written
              /\ pc' = "panicked"
              /\ result' = "panic"
              /\ exitCause' = "io"
    /\ UNCHANGED <<termVars, collector, queue, pressed_keys,
                   previous_pressed_keys, frame_i, delivered, elapsed, slept>>
    /\ UNCHANGED renderVars

\* elapsed = frame_start.elapsed(); if elapsed < frame_duration { sleep }
Pace ==
    /\ pc = "pace"
    /\ \E e \in 0..MaxElapsed :
         /\ elapsed' = e
         /\ slept' = SleepFor(e)
    /\ pc' = "cycle"
    /\ UNCHANGED <<result, exitCause, termVars, collector, queue, keyVars,
                   frame_i, delivered, written>>
    /\ UNCHANGED renderVars

(* -------------------- collector thread --------------------------------- *)
\* what the model lets the collector send (the bounds, not the code)
CanSend(k) ==
    LET recorded == IF pc = "drain" THEN pressed_keys ELSE <<>>
    IN /\ Len(queue) < MaxQueue
       /\ \/ k = QuitKey
          \/ Len(recorded) + Len(queue) < MaxKeys
          \/ Contains(recorded, k)
          \/ Contains(queue, k)

\* let c = read_char().unwrap(); tx.send(c).unwrap();
CollectorSend ==
    /\ collector = "running"
    /\ ~Terminated
    /\ \E input \in InputBytes \cup {Eof} :
         /\ CanSend(read_char(input))
         /\ queue' = Append(queue, read_char(input))
    /\ UNCHANGED <<pc, result, exitCause, termVars, collector, keyVars,
                   cycleVars>>
    /\ UNCHANGED renderVars

\* read_char() returns Err: unwrap panics, the thread ends, tx is dropped
CollectorFail ==
    /\ collector = "running"
    /\ ~Terminated
    /\ collector' = "dead"
    /\ UNCHANGED <<pc, result, exitCause, termVars, queue, keyVars, cycleVars>>
    /\ UNCHANGED renderVars

MainStep ==
    \/ Setup
    \/ LoadRom
    \/ InitCore
    \/ Spawn
    \/ CycleStart
    \/ DrainQuit
    \/ DrainKey
    \/ DrainEmpty
    \/ DrainDisconnected
    \/ Diff
    \/ FrameAdvance
    \/ Render
    \/ Pace

CollectorStep ==
    \/ CollectorSend
    \/ CollectorFail

Next == MainStep \/ CollectorStep

Spec == Init /\ [][Next]_vars

\* the main thread is always scheduled, and every frame advance, write and
\* pacing sleep returns; the collector may block in read for ever
SpecLive == Init /\ [][Next]_vars /\ WF_vars(MainStep)

(* ------------------- render_frame on its own --------------------------- *)
\* render_frame up to the first cell: ResetColor and MoveTo(0, 0) queued on
\* stdout, then create_frame's first four lines
RenderStart ==
    /\ rpc = "idle"
    /\ stdout' = <<ResetColor, MoveTo(0, 0)>>
    /\ prev_bg_color' = Black
    /\ prev_fg_color' = Black
    /\ frame' = frame \o <<SetBackgroundColor(Black), SetForegroundColor(Black)>>
    /\ x' = 0
    /\ y' = 0
    /\ rpc' = IF LCD_HEIGHT \div 2 > 0 THEN "cells" ELSE "composed"
    /\ UNCHANGED <<frame_buffer, last_frame_buffer, composed_before>>
    /\ UNCHANGED loopVars

\* one pass of for x in 0..LCD_WIDTH
CellStep ==
    /\ rpc = "cells"
    /\ x < LCD_WIDTH
    /\ LET st == ComposeCell([bg |-> prev_bg_color, fg |-> prev_fg_color,
                              out |-> frame],
                             Rgb(read(frame_buffer, x, y * 2)),
                             Rgb(read(frame_buffer, x, y * 2 + 1)))
       IN /\ frame' = st.out
          /\ prev_bg_color' = st.bg
          /\ prev_fg_color' = st.fg
    /\ x' = x + 1
    /\ UNCHANGED <<rpc, y, stdout, frame_buffer, last_frame_buffer,
                   composed_before>>
    /\ UNCHANGED loopVars

\* the inner loop is over: MoveToNextLine(1), next y
RowEnd ==
    /\ rpc = "cells"
    /\ x = LCD_WIDTH
    /\ LET st == EndOfRow([bg |-> prev_bg_color, fg |-> prev_fg_color,
                           out |-> frame])
       IN /\ frame' = st.out
          /\ prev_bg_color' = st.bg
          /\ prev_fg_color' = st.fg
    /\ x' = 0
    /\ y' = y + 1
    /\ rpc' = IF y + 1 < LCD_HEIGHT \div 2 THEN "cells" ELSE "composed"
    /\ UNCHANGED <<stdout, frame_buffer, last_frame_buffer, composed_before>>
    /\ UNCHANGED loopVars

\* stdout.write_all(&frame); stdout.flush(); frame.clear()
WriteFrame ==
    /\ rpc = "composed"
    /\ stdout' = stdout \o frame
    /\ frame' = <<>>
    /\ rpc' = "written"
    /\ last_frame_buffer' = frame_buffer
    /\ composed_before' = TRUE
    /\ UNCHANGED <<frame_buffer, prev_bg_color, prev_fg_color, x, y>>
    /\ UNCHANGED loopVars

\* the next cycle: gameboy.frame returns the next buffer
NextBuffer ==
    /\ rpc = "written"
    /\ frame_buffer' \in FrameBuffers
    /\ rpc' = "idle"
    /\ UNCHANGED <<last_frame_buffer, composed_before, frame, stdout,
                   prev_bg_color, prev_fg_color, x, y>>
    /\ UNCHANGED loopVars

InitFrame ==
    /\ InitLoop
    /\ rpc = "idle"
    /\ frame_buffer \in FrameBuffers
    /\ last_frame_buffer = BlackBuffer
    /\ composed_before = FALSE
    /\ frame = <<>>
    /\ stdout = <<>>
    /\ prev_bg_color = Black
    /\ prev_fg_color = Black
    /\ x = 0
    /\ y = 0

NextFrame ==
    \/ RenderStart
    \/ CellStep
    \/ RowEnd
    \/ WriteFrame
    \/ NextBuffer

\* render_frame applied to every frame buffer, frame after frame
SpecFrame == InitFrame /\ [][NextFrame]_vars

(* ------------------------- model sanity -------------------------------- *)
TypeOK ==
    /\ pc \in {"setup", "load", "init_core", "spawn", "cycle", "drain", "diff",
               "frames", "pace", "returned", "panicked"}
    /\ result \in {"none", "Ok", "Err", "panic"}
    /\ collector \in {"unspawned", "running", "dead"}
    /\ Len(queue) <= MaxQueue
    /\ Len(pressed_keys) <= MaxKeys
    /\ Len(previous_pressed_keys) <= MaxKeys
    /\ frame_i \in 0..FRAMES_PER_CYCLE
    /\ written \in 0..1

\* the bound MaxKeys never drops a key code that pressed_keys does not hold
NoKeyLost ==
    (pc = "drain" /\ queue # <<>> /\ Head(queue) # QuitKey)
        => (Len(pressed_keys) < MaxKeys \/ Contains(pressed_keys, Head(queue)))

(* ------------------------------ claims --------------------------------- *)
Range(v) == {v[i] : i \in 1..Len(v)}
MappedKeyCodes == {"n", "m", "j", "k", "w", "s", "a", "d"}
TerminalRestored == ~altScreen /\ ~rawMode /\ ~cursorHidden

\* C1: in every cycle the event list handed to the core holds at most one
\* event (Down or Up) for each joypad button.
C1_AtMostOneEventPerButton ==
    \A i \in 1..Len(delivered) :
        \A m, n \in 1..Len(delivered[i]) :
            m # n => delivered[i][m].input # delivered[i][n].input

\* C2: the diff step emits Down(B) for a mapped key code k iff k is in the
\* current pressed collection and not in the previous one, Up(B) iff k is in
\* the previous and not in the current one, and no event for B when k's
\* membership is the same in both.
C2_DiffEmitsExactlyTheTransitions ==
    [][(pc = "diff" /\ pc' = "frames") =>
        \A k \in MappedKeyCodes :
            LET B == char_to_joypad_input(k)
                inCur == k \in Range(pressed_keys)
                inPrev == k \in Range(previous_pressed_keys)
            IN /\ (JoypadEvent("Down", B) \in Range(joypad_events'))
                      <=> (inCur /\ ~inPrev)
               /\ (JoypadEvent("Up", B) \in Range(joypad_events'))
                      <=> (inPrev /\ ~inCur)
               /\ (inCur <=> inPrev)
                      => \A e \in Range(joypad_events') : e.input # B]_vars

\* C2 witness: a cycle whose diff pressed one button and released another
C2_Witness ==
    /\ pc = "frames"
    /\ JoypadEvent("Down", "Up") \in Range(joypad_events)
    /\ JoypadEvent("Up", "Left") \in Range(joypad_events)

\* C3: the events of a cycle reach the core at the first frame advance of the
\* cycle only; every other frame advance of the cycle receives no events.
C3_EventsDeliveredAtFirstAdvanceOnly ==
    \A i \in 1..Len(delivered) : i > 1 => delivered[i] = <<>>

\* C4: when 'q' is drained and the quit arm's instructions succeed, cli
\* returns with the teardown run once and the terminal fully restored: raw
\* mode off, alternate screen left, cursor shown.
C4_QuitRestoresTerminal ==
    (pc = "returned" /\ exitCause = "quit" /\ result = "Ok")
        => (teardowns = 1 /\ TerminalRestored)

\* C5: when the loop ends on the disconnected channel, the teardown of the
\* quit arm has run: alternate screen left, cursor shown, raw mode off.
C5_DisconnectRunsTeardown ==
    (pc = "returned" /\ exitCause = "disconnected")
        => (~altScreen /\ ~cursorHidden /\ ~rawMode /\ teardowns = 1)

\* C6: cli reports an error when the loop ended on the disconnected channel
\* (the collector's read failed), and a clean outcome when it ended on the
\* quit key and the teardown instructions succeeded.
C6_DisconnectIsAnError ==
    /\ (pc = "returned" /\ exitCause = "disconnected") => result # "Ok"
    /\ (pc = "returned" /\ exitCause = "quit" /\ teardowns = 1)
           => result = "Ok"

\* C7: after a fatal startup failure (ROM unreadable, core initialisation
\* failed) the loop was never entered and the terminal is restored.
C7_StartupFailureRestoresTerminal ==
    (pc = "panicked" /\ exitCause \in {"rom", "core_init"})
        => (collector = "unspawned" /\ TerminalRestored)

\* C8 as claimed: once draining starts the loop eventually leaves the drain,
\* whatever the collector does.
C8_DrainAlwaysEnds == (pc = "drain") ~> (pc # "drain")

\* C8 amended: no poll of the channel waits (in the drain the main thread
\* always has a step), and the loop leaves the drain unless the collector
\* keeps the channel from ever being found empty: if from some point on the
\* channel stays empty, the loop is outside the drain again and again.
C8_DrainEndsUnlessFlooded ==
    /\ [](pc = "drain" => ENABLED MainStep)
    /\ (<>[](queue = <<>>)) => ([]<>(pc # "drain"))

\* C8 witness: the collector has enqueued while the drain was under way
C8_Witness ==
    pc = "drain" /\ Len(pressed_keys) = MaxKeys /\ queue # <<>>

\* C9: when 'q' is drained the loop is left at once: no frame advance and
\* no frame write happens in that cycle or later, and the key codes drained
\* before it in the cycle produce no joypad events.
C9_QuitStopsFrameWork ==
    exitCause = "quit"
        => /\ Terminated
           /\ frame_i = 0
           /\ delivered = <<>>
           /\ written = 0
           /\ joypad_events = <<>>

\* C9 witness: 'q' drained after a newly pressed mapped key in the same drain
C9_Witness ==
    /\ exitCause = "quit"
    /\ \E k \in Range(pressed_keys) :
          /\ char_to_joypad_input(k) # None
          /\ k \notin Range(previous_pressed_keys)

\* C10: after a failed read the collector has ended and enqueues nothing
\* more, and the main loop eventually ends; it ends on the disconnection
\* only with the channel drained empty.
C10_ReadFailureEndsTheLoop ==
    /\ [][collector = "dead" =>
            (collector' = "dead" /\ Len(queue') <= Len(queue))]_vars
    /\ [](exitCause = "disconnected" => (queue = <<>> /\ collector = "dead"))
    /\ (collector = "dead") ~> Terminated

\* C10 witness: the loop ended on the disconnection after draining key codes
C10_Witness ==
    /\ pc = "returned"
    /\ exitCause = "disconnected"
    /\ pressed_keys # <<>>

\* C11: for a mapped key code k, a cycle whose drained key codes are {k}
\* after a cycle with none emits exactly [Down(map(k))]; a cycle with nothing
\* drained after a cycle whose key codes were {k} emits exactly [Up(map(k))];
\* two distinct mapped key codes newly present (and no other) emit exactly
\* one Down event each.
C11_ScenarioEvents ==
    [][(pc = "diff" /\ pc' = "frames") =>
        /\ \A k \in MappedKeyCodes :
              (Range(pressed_keys) = {k} /\ previous_pressed_keys = <<>>)
                 => joypad_events'
                       = <<JoypadEvent("Down", char_to_joypad_input(k))>>
        /\ \A k \in MappedKeyCodes :
              (Range(previous_pressed_keys) = {k} /\ pressed_keys = <<>>)
                 => joypad_events'
                       = <<JoypadEvent("Up", char_to_joypad_input(k))>>
        /\ \A k1, k2 \in MappedKeyCodes :
              (k1 # k2 /\ Range(pressed_keys) = {k1, k2}
                       /\ previous_pressed_keys = <<>>)
                 => /\ Len(joypad_events') = 2
                    /\ Range(joypad_events')
                          = {JoypadEvent("Down", char_to_joypad_input(k1)),
                             JoypadEvent("Down", char_to_joypad_input(k2))}]_vars

\* C12: when the pressed collections of two consecutive cycles hold the same
\* key codes, the diff of the second cycle emits no event.
C12_NoChangeNoEvents ==
    [][(pc = "diff" /\ pc' = "frames"
            /\ Range(pressed_keys) = Range(previous_pressed_keys))
          => joypad_events' = <<>>]_vars

\* C12 witness: a diff has emitted nothing although the cycle's collection
\* (now the previous one) holds a mapped key code, which therefore was in
\* the collection of the cycle before as well
C12_Witness ==
    /\ pc = "frames"
    /\ frame_i = 0
    /\ joypad_events = <<>>
    /\ \E k \in Range(previous_pressed_keys) : k \in MappedKeyCodes

\* the key codes of v that are among the 8 mapped ones, in order
Mapped(v) == SelectSeq(v, LAMBDA k : k \in MappedKeyCodes)

\* C13: an unmapped key code never fails the diff and never yields an event:
\* every diff completes, every emitted event carries a button, and the
\* events are those the diff emits with the unmapped key codes left out of
\* both collections.
C13_UnmappedKeyCodesIgnored ==
    /\ [](pc = "diff" => ENABLED Diff)
    /\ [][(pc = "diff" /\ pc' = "frames") =>
            /\ \A e \in Range(joypad_events') :
                  e.input \in {char_to_joypad_input(k) : k \in MappedKeyCodes}
            /\ joypad_events' =
                  PushDownEvents(Mapped(pressed_keys),
                                 Mapped(previous_pressed_keys),
                     PushUpEvents(Mapped(previous_pressed_keys),
                                  Mapped(pressed_keys), <<>>))]_vars

\* C13 witness: a diff that met an unmapped key code and emitted an event
C13_Witness ==
    /\ pc = "frames"
    /\ frame_i = 0
    /\ NulKey \in Range(previous_pressed_keys)
    /\ joypad_events # <<>>

\* C16: the pacer sleeps exactly target - elapsed when elapsed < target and
\* does not sleep when elapsed >= target, target being
\* FRAME_DURATION * FRAMES_PER_CYCLE; no duration below zero is ever formed.
C16_PacerSleepsTheRemainder ==
    (pc = "cycle" /\ written = 1) =>
        LET target == FRAME_DURATION * FRAMES_PER_CYCLE
        IN /\ elapsed < target => (slept = target - elapsed /\ slept > 0)
           /\ elapsed >= target => slept = 0
           /\ slept + elapsed >= target

\* C16 witness: a cycle that took exactly the target and did not sleep
C16_Witness ==
    /\ pc = "cycle"
    /\ written = 1
    /\ elapsed = FRAME_DURATION * FRAMES_PER_CYCLE
    /\ slept = 0

\* C17: a cycle that runs to its pacing step has advanced the core exactly
\* FRAMES_PER_CYCLE times and written exactly one frame, after the last
\* advance; every cycle starts with no advance and no write counted,
\* whatever the cycle before took.
C17_TwoAdvancesOneWritePerCycle ==
    /\ [](pc = "pace" =>
            /\ frame_i = FRAMES_PER_CYCLE
            /\ Len(delivered) = FRAMES_PER_CYCLE
            /\ written = 1)
    /\ [][written' > written =>
            (frame_i = FRAMES_PER_CYCLE /\ frame_i' = frame_i)]_vars
    /\ [][(pc = "cycle" /\ pc' = "drain") =>
            (frame_i' = 0 /\ written' = 0)]_vars
    /\ [][pc = "diff" => pc' \in {"diff", "frames"}]_vars

\* C17 witness: the end of a cycle that overran its target, from which the
\* next cycle starts
C17_Witness ==
    /\ pc = "cycle"
    /\ elapsed > FRAME_DURATION * FRAMES_PER_CYCLE
    /\ slept = 0
    /\ frame_i = FRAMES_PER_CYCLE
    /\ written = 1

\* C19: the event list is empty whenever the loop is outside its frame
\* advances, so every diff starts from the empty list and the list the core
\* receives holds the events of the current cycle's diff alone.
C19_EventsNotCarriedOver ==
    /\ [](pc \in {"spawn", "cycle", "drain", "diff", "pace"}
            => joypad_events = <<>>)
    /\ [][(pc = "diff" /\ pc' = "frames") =>
            joypad_events' =
               PushDownEvents(pressed_keys, previous_pressed_keys,
                  PushUpEvents(previous_pressed_keys, pressed_keys, <<>>))]_vars
    /\ [](\A i \in 1..Len(delivered) :
             pc = "frames" => delivered[i] = joypad_events)

\* C19 witness: a cycle whose events reached the core and were then cleared
C19_Witness ==
    /\ pc = "pace"
    /\ Len(delivered) = FRAMES_PER_CYCLE
    /\ delivered[1] # <<>>
    /\ joypad_events = <<>>

\* C20: the channel is a queue with one sender and one receiver: it changes
\* only by the collector appending a key code or the drain removing the
\* oldest one.  A key code the drain removes (other than 'q') is in the
\* cycle's pressed collection; the diff makes that collection the previous
\* one of the next cycle and no other step changes the previous one; the
\* pressed collection is empty when a drain starts.
C20_KeyCodesFlowThroughOneCycle ==
    /\ [][\/ queue' = queue
          \/ queue # <<>> /\ queue' = Tail(queue) /\ pc = "drain"
          \/ \E k \in InputBytes \cup {NulKey} :
                queue' = Append(queue, k) /\ collector = "running"]_vars
    /\ [][(queue # <<>> /\ queue' = Tail(queue) /\ Head(queue) # QuitKey)
            => (Head(queue) \in Range(pressed_keys') /\ pc' = "drain")]_vars
    /\ [][(pc = "diff" /\ pc' = "frames") =>
            (previous_pressed_keys' = pressed_keys /\ pressed_keys' = <<>>)]_vars
    /\ [][previous_pressed_keys' # previous_pressed_keys => pc = "diff"]_vars
    /\ [][(pc # "drain" /\ pc' = "drain") => pressed_keys' = <<>>]_vars

\* C20 witness: two key codes dequeued in the order read are the previous
\* collection, while the collector has enqueued the next one
C20_Witness ==
    /\ pc = "frames"
    /\ previous_pressed_keys = <<"w", "a">>
    /\ pressed_keys = <<>>
    /\ queue = <<"a">>

(* ---------------------- claims on the compositor ----------------------- *)
\* the colours of a terminal after ResetColor: no Rgb value
DefaultColor == [r |-> 256, g |-> 256, b |-> 256]

\* what a terminal makes of an instruction stream: the cells painted, in
\* order, each with its position and the colours in force at its glyph
RECURSIVE Paint(_, _)
Paint(stream, t) ==
    IF stream = <<>> THEN t
    ELSE LET i == Head(stream)
             u == CASE i.op = "ResetColor" ->
                         [t EXCEPT !.bg = DefaultColor, !.fg = DefaultColor]
                    [] i.op = "MoveTo" ->
                         [t EXCEPT !.col = i.arg[1], !.row = i.arg[2]]
                    [] i.op = "SetBackgroundColor" -> [t EXCEPT !.bg = i.arg]
                    [] i.op = "SetForegroundColor" -> [t EXCEPT !.fg = i.arg]
                    [] i.op = "HalfBlock" ->
                         [t EXCEPT !.cells = Append(@, [col |-> t.col,
                                       row |-> t.row, bg |-> t.bg, fg |-> t.fg]),
                                   !.col = @ + 1]
                    [] i.op = "MoveToNextLine" ->
                         [t EXCEPT !.row = @ + i.arg, !.col = 0]
         IN Paint(Tail(stream), u)

Painted(stream) ==
    Paint(stream, [bg |-> DefaultColor, fg |-> DefaultColor, col |-> 0,
                   row |-> 0, cells |-> <<>>]).cells

\* the cells of a frame buffer in raster order: background from pixel
\* (c, 2r), foreground from pixel (c, 2r+1)
CellsOf(fb) ==
    [n \in 1..(LCD_WIDTH * (LCD_HEIGHT \div 2)) |->
        LET c == (n - 1) % LCD_WIDTH
            r == (n - 1) \div LCD_WIDTH
        IN [col |-> c, row |-> r,
            bg |-> [r |-> fb[<<c, 2 * r>>].red, g |-> fb[<<c, 2 * r>>].green,
                    b |-> fb[<<c, 2 * r>>].blue],
            fg |-> [r |-> fb[<<c, 2 * r + 1>>].red,
                    g |-> fb[<<c, 2 * r + 1>>].green,
                    b |-> fb[<<c, 2 * r + 1>>].blue]]]

OfRole(stream, op) == SelectSeq(stream, LAMBDA i : i.op = op)
LastColor(stream, op) == OfRole(stream, op)[Len(OfRole(stream, op))].arg
ColorRoles == {"SetBackgroundColor", "SetForegroundColor"}

\* C14: the stream written for a frame paints every cell exactly once, in
\* raster order, and the background and foreground colours in force at the
\* cell's glyph are pixel (c, 2r) and pixel (c, 2r+1) of the frame buffer.
C14_StreamPaintsTheFrameBuffer ==
    rpc = "written" => Painted(stdout) = CellsOf(frame_buffer)

\* C14 witness: a written frame with colour changes made and others elided
C14_Witness ==
    /\ rpc = "written"
    /\ Len(OfRole(stdout, "SetBackgroundColor")) > 2
    /\ Len(OfRole(stdout, "SetForegroundColor")) > 1
    /\ Len(stdout) < 4 + 3 * LCD_WIDTH * (LCD_HEIGHT \div 2) + LCD_HEIGHT \div 2

\* C15 as claimed: a cell whose two pixels have the colours the same
\* coordinates had in the frame composed before gets no colour-change
\* instruction.
C15_UnchangedSincePreviousFrameNoInstruction ==
    [][(/\ rpc = "cells" /\ x' = x + 1
        /\ composed_before
        /\ frame_buffer[<<x, 2 * y>>] = last_frame_buffer[<<x, 2 * y>>]
        /\ frame_buffer[<<x, 2 * y + 1>>] = last_frame_buffer[<<x, 2 * y + 1>>])
          => frame' = Append(frame, HalfBlock)]_vars

\* C15 amended: a cell whose two pixels have the colours of the cell
\* composed just before it in the same frame (black and black for the first
\* cell of the frame) gets no colour-change instruction, only its glyph.
C15_UnchangedSincePreviousCellNoInstruction ==
    [][(rpc = "cells" /\ x' = x + 1) =>
        LET n == y * LCD_WIDTH + x + 1
            cells == CellsOf(frame_buffer)
            before == IF n = 1 THEN [bg |-> Black, fg |-> Black]
                      ELSE [bg |-> cells[n - 1].bg, fg |-> cells[n - 1].fg]
        IN (cells[n].bg = before.bg /\ cells[n].fg = before.fg)
              => frame' = Append(frame, HalfBlock)]_vars

\* C15 witness: the second cell of a frame repeated the non-black colours of
\* the first and got its glyph alone
C15_Witness ==
    /\ rpc = "cells"
    /\ y = 0
    /\ x = 2
    /\ frame_buffer[<<0, 0>>] = frame_buffer[<<1, 0>>]
    /\ frame_buffer[<<0, 1>>] = frame_buffer[<<1, 1>>]
    /\ frame_buffer[<<0, 0>>].red = 255
    /\ frame[Len(frame)] = HalfBlock
    /\ frame[Len(frame) - 1] = HalfBlock

\* C18: within a frame a set-background (set-foreground) instruction is
\* emitted for a cell iff the cell's colour differs from the colour last
\* emitted for that role, which is black before the first cell and is kept
\* over row ends; so consecutive instructions of one role differ in colour.
C18_ColorSetIffChanged ==
    /\ [][(rpc = "cells" /\ x' = x + 1) =>
            LET new == SubSeq(frame', Len(frame) + 1, Len(frame'))
                cell == CellsOf(frame_buffer)[y * LCD_WIDTH + x + 1]
                want == [SetBackgroundColor |-> cell.bg,
                         SetForegroundColor |-> cell.fg]
            IN /\ SubSeq(frame', 1, Len(frame)) = frame
               /\ \A op \in ColorRoles :
                     /\ (OfRole(new, op) # <<>>)
                            <=> (want[op] # LastColor(frame, op))
                     /\ Len(OfRole(new, op)) <= 1
                     /\ \A i \in 1..Len(new) :
                           new[i].op = op => new[i].arg = want[op]]_vars
    /\ [](\A op \in ColorRoles :
             /\ (rpc = "cells" /\ x = 0 /\ y = 0) => LastColor(frame, op) = Black
             /\ \A i \in 1..(Len(OfRole(frame, op)) - 1) :
                   OfRole(frame, op)[i].arg # OfRole(frame, op)[i + 1].arg)

\* C18 witness: a composed frame whose first cell of the second row has the
\* non-black background of the last cell of the first row
C18_Witness ==
    /\ rpc = "composed"
    /\ frame_buffer[<<0, 2>>] = frame_buffer[<<LCD_WIDTH - 1, 0>>]
    /\ frame_buffer[<<0, 2>>].red = 255

====
